---- MODULE Spec2Model ----
(***************************************************************************)
(* Model of curve's mds/schedule/scheduler_helper.cpp (SchedulerHelper):   *)
(* the scatter-width policy, the simulation of a one-replica migration,    *)
(* the zone / scatter-width feasibility checks, the three randomized       *)
(* sorts and the distribution of copysets over the online chunkservers.    *)
(*                                                                         *)
(* Every SchedulerHelper function is a synchronous static function over a  *)
(* topology snapshot, so each is one operator, and each call is one action *)
(* that records the arguments and the returned value.                      *)
(***************************************************************************)
EXTENDS Integers, Sequences, FiniteSets

VARIABLES topo, op, args, ret

vars == <<topo, op, args, ret>>

(***************************************************************************)
(* Bounds of the model.                                                    *)
(***************************************************************************)
NumNodes == 4
ReplicaNum == 3
MaxCopysets == 2
NumZones == 3
MaxWidth == 7
MaxMinScatterWidth == 2
MaxRangeNum == 1
RangeDen == 2
NumRankNodes == 3
MaxListLen == 2
MaxDelta == 1

\* The sentinel "no such chunkserver in this operation".
UNINTIALIZE_ID == 0

Nodes == 1..NumNodes

(***************************************************************************)
(* std::map<K, V>: a function with a finite domain.                        *)
(***************************************************************************)
EmptyMap == [k \in {} |-> 0]

MapPut(m, k, v) == [x \in (DOMAIN m) \cup {k} |-> IF x = k THEN v ELSE m[x]]

MapErase(m, k) == [x \in (DOMAIN m) \ {k} |-> m[x]]

\* operator[] read of an int-valued map: a missing key reads as 0
MapGet(m, k) == IF k \in DOMAIN m THEN m[k] ELSE 0

Min(S) == CHOOSE x \in S : \A y \in S : x <= y

RECURSIVE SortedSeq(_)
SortedSeq(S) ==
  IF S = {} THEN << >> ELSE <<Min(S)>> \o SortedSeq(S \ {Min(S)})

(***************************************************************************)
(* The topology snapshot (TopoAdapter).                                    *)
(***************************************************************************)
ZoneOf(n) == ((n - 1) % NumZones) + 1

PeerInfo(n) == [id |-> n, zoneId |-> ZoneOf(n)]

CopySetInfo(k, S) ==
  [id |-> <<1, k>>, peers |-> [i \in 1..Cardinality(S) |-> PeerInfo(SortedSeq(S)[i])]]

PeerIds(cs) == {cs.peers[i].id : i \in DOMAIN cs.peers}

PeerSets == {S \in SUBSET Nodes : Cardinality(S) = ReplicaNum}

RECURSIVE Weight(_)
Weight(S) == IF S = {} THEN 0 ELSE 2 ^ Min(S) + Weight(S \ {Min(S)})

CopysetLists ==
  UNION {{[i \in 1..n |-> CopySetInfo(i, s[i])] :
            s \in {t \in [1..n -> PeerSets] :
                     \A i \in 1..(n - 1) : Weight(t[i]) <= Weight(t[i + 1])}} :
         n \in 0..MaxCopysets}

GetCopySetInfos(t) == t.copysets

GetChunkServerInfo(t, id) ==
  IF id \in Nodes
    THEN [ok |-> TRUE, info |-> [id |-> id, zoneId |-> ZoneOf(id)]]
    ELSE [ok |-> FALSE, info |-> [id |-> UNINTIALIZE_ID, zoneId |-> 0]]

GetStandardZoneNumInLogicalPool(t, poolId) == t.standardZoneNum

\* partner chunkserver -> number of copysets hosted together with it
ScatterMapOf(copysets, id) ==
  LET partners == {p \in Nodes \ {id} :
                     \E i \in DOMAIN copysets : {id, p} \subseteq PeerIds(copysets[i])}
  IN [p \in partners |->
        Cardinality({i \in DOMAIN copysets : {id, p} \subseteq PeerIds(copysets[i])})]

\* the snapshot: the copysets, the scatter map of every chunkserver as the
\* copysets give it, and the standard zone number of the logical pool
Topology(copysets, standardZoneNum) ==
  [copysets |-> copysets,
   scatterMap |-> [n \in Nodes |-> ScatterMapOf(copysets, n)],
   standardZoneNum |-> standardZoneNum]

GetChunkServerScatterMap(t, id) == t.scatterMap[id]

\* the over-max branch of the target accepts an unchanged width
SatisfyScatterWidth_TargetKeeps(target, oldValue, newValue, minScatterWidth, rangeNum) ==
  IF newValue < minScatterWidth
    THEN IF ~target THEN ~(newValue - oldValue < 0) ELSE ~(newValue - oldValue < 1)
    ELSE IF newValue > (minScatterWidth * (RangeDen + rangeNum)) \div RangeDen
           THEN IF ~target THEN ~(newValue - oldValue > 0) ELSE ~(newValue - oldValue > 0)
           ELSE TRUE

\* the under-min branch of the target accepts an unchanged width
SatisfyScatterWidth_TargetFlat(target, oldValue, newValue, minScatterWidth, rangeNum) ==
  IF newValue < minScatterWidth
    THEN ~(newValue - oldValue < 0)
    ELSE IF newValue > (minScatterWidth * (RangeDen + rangeNum)) \div RangeDen
           THEN IF ~target THEN ~(newValue - oldValue > 0) ELSE ~(newValue - oldValue >= 0)
           ELSE TRUE

\* the over-max branch of a non-target rejects an unchanged width
SatisfyScatterWidth_OtherStrict(target, oldValue, newValue, minScatterWidth, rangeNum) ==
  IF newValue < minScatterWidth
    THEN IF ~target THEN ~(newValue - oldValue < 0) ELSE ~(newValue - oldValue < 1)
    ELSE IF newValue > (minScatterWidth * (RangeDen + rangeNum)) \div RangeDen
           THEN IF ~target THEN ~(newValue - oldValue >= 0) ELSE ~(newValue - oldValue >= 0)
           ELSE TRUE

\* the range is dropped: maxValue is minScatterWidth
MaxValue_NoRange(minScatterWidth, rangeNum) == minScatterWidth

(***************************************************************************)
(* SatisfyScatterWidth.  scatterWidthRangePerent is the float              *)
(* rangeNum / RangeDen; the conversion of the float product to int         *)
(* truncates, and the operands are not negative.                           *)
(***************************************************************************)
MaxValue(minScatterWidth, rangeNum) ==
  (minScatterWidth * (RangeDen + rangeNum)) \div RangeDen

SatisfyScatterWidth(target, oldValue, newValue, minScatterWidth, rangeNum) ==
  LET maxValue == MaxValue(minScatterWidth, rangeNum)
  IN IF newValue < minScatterWidth
       THEN IF ~target
              THEN ~(newValue - oldValue < 0)
              ELSE ~(newValue - oldValue < 1)
       ELSE IF newValue > maxValue
              THEN IF ~target
                     THEN ~(newValue - oldValue > 0)
                     ELSE ~(newValue - oldValue >= 0)
              ELSE TRUE

CallSatisfyScatterWidth ==
  /\ op = "none"
  /\ \E target \in BOOLEAN, oldValue \in 0..MaxWidth, newValue \in 0..MaxWidth,
       minScatterWidth \in 1..MaxMinScatterWidth, rangeNum \in 0..MaxRangeNum :
       /\ op' = "SatisfyScatterWidth"
       /\ args' = [target |-> target, oldValue |-> oldValue, newValue |-> newValue,
                   minScatterWidth |-> minScatterWidth, rangeNum |-> rangeNum]
       /\ ret' = SatisfyScatterWidth(target, oldValue, newValue, minScatterWidth, rangeNum)
       /\ UNCHANGED topo

NoCall ==
  /\ op = "none"
  /\ args = EmptyMap
  /\ ret = FALSE

InitPolicy ==
  /\ topo = Topology(<< >>, NumZones)
  /\ NoCall

NextPolicy == CallSatisfyScatterWidth

SpecPolicy == InitPolicy /\ [][NextPolicy]_vars

(***************************************************************************)
(* The claims about SatisfyScatterWidth, checked under SpecPolicy.         *)
(***************************************************************************)
PolicyCalled == op = "SatisfyScatterWidth"

\* newWidth <= minScatterWidth * (1 + rangePercent), over the rationals
WithinMax(newValue, minScatterWidth, rangeNum) ==
  newValue * RangeDen <= minScatterWidth * (RangeDen + rangeNum)

C2_BelowMin ==
  (PolicyCalled /\ args.newValue < args.minScatterWidth)
    => (ret = IF args.target
                THEN args.newValue - args.oldValue >= 1
                ELSE args.newValue >= args.oldValue)

\* below the minimum with an unchanged width: the target is rejected
C2_Witness ==
  /\ PolicyCalled
  /\ args.newValue < args.minScatterWidth
  /\ args.target
  /\ args.newValue = args.oldValue
  /\ ret = FALSE

Size(m) == Cardinality(DOMAIN m)

\* (*scatterWidth)[k].first = v ; a new entry is value-initialized to (0, 0)
SetFirst(scatterWidth, k, v) ==
  MapPut(scatterWidth, k, <<v, IF k \in DOMAIN scatterWidth THEN scatterWidth[k][2] ELSE 0>>)

\* (*scatterWidth)[k].second = v
SetSecond(scatterWidth, k, v) ==
  MapPut(scatterWidth, k, <<IF k \in DOMAIN scatterWidth THEN scatterWidth[k][1] ELSE 0, v>>)

\* the count is never decremented: the partner is always erased
LoseUnit_AlwaysErase(m, k) == MapErase(m, k)

\* the partner is erased only when its count is already 0
LoseUnit_EraseAtZero(m, k) ==
  IF MapGet(m, k) <= 0 THEN MapErase(m, k) ELSE MapPut(m, k, m[k] - 1)

\* if (m.count(k) <= 0) m[k] = 1; else m[k]++;
GainUnit(m, k) ==
  IF ~(k \in DOMAIN m) THEN MapPut(m, k, 1) ELSE MapPut(m, k, m[k] + 1)

\* if (m[k] <= 1) m.erase(k); else m[k]--;
LoseUnit(m, k) ==
  IF MapGet(m, k) <= 1 THEN MapErase(m, k) ELSE MapPut(m, k, m[k] - 1)

\* one iteration of the loop over copySetInfo.peers
AffectOfPeer(st, peer, source, target, t) ==
  IF peer.id = source
    THEN st
    ELSE
      LET tmpMap == GetChunkServerScatterMap(t, peer.id)
          width1 == SetFirst(st.scatterWidth, peer.id, Size(tmpMap))
          targetMap1 == IF target # UNINTIALIZE_ID
                          THEN GainUnit(st.targetMap, peer.id) ELSE st.targetMap
          tmpMap1 == IF target # UNINTIALIZE_ID THEN GainUnit(tmpMap, target) ELSE tmpMap
          tmpMap2 == IF source # UNINTIALIZE_ID THEN LoseUnit(tmpMap1, source) ELSE tmpMap1
          sourceMap1 == IF source # UNINTIALIZE_ID
                          THEN LoseUnit(st.sourceMap, peer.id) ELSE st.sourceMap
      IN [targetMap |-> targetMap1, sourceMap |-> sourceMap1,
          scatterWidth |-> SetSecond(width1, peer.id, Size(tmpMap2))]

RECURSIVE AffectOfPeers(_, _, _, _, _, _)
AffectOfPeers(st, peers, i, source, target, t) ==
  IF i > Len(peers)
    THEN st
    ELSE AffectOfPeers(AffectOfPeer(st, peers[i], source, target, t),
                       peers, i + 1, source, target, t)

\* returns *scatterWidth, and the locals targetMap and sourceMap as they are
\* when the function returns
CalculateAffectOfMigration(copySetInfo, source, target, t) ==
  LET targetMap == IF target # UNINTIALIZE_ID
                     THEN GetChunkServerScatterMap(t, target) ELSE EmptyMap
      width1 == IF target # UNINTIALIZE_ID
                  THEN SetFirst(EmptyMap, target, Size(targetMap)) ELSE EmptyMap
      sourceMap == IF source # UNINTIALIZE_ID
                     THEN GetChunkServerScatterMap(t, source) ELSE EmptyMap
      width2 == IF source # UNINTIALIZE_ID
                  THEN SetFirst(width1, source, Size(sourceMap)) ELSE width1
      st == AffectOfPeers([targetMap |-> targetMap, sourceMap |-> sourceMap,
                           scatterWidth |-> width2],
                          copySetInfo.peers, 1, source, target, t)
      width3 == IF target # UNINTIALIZE_ID
                  THEN SetSecond(st.scatterWidth, target, Size(st.targetMap))
                  ELSE st.scatterWidth
      width4 == IF source # UNINTIALIZE_ID
                  THEN SetSecond(width3, source, Size(st.sourceMap)) ELSE width3
  IN [scatterWidth |-> width4, targetMap |-> st.targetMap, sourceMap |-> st.sourceMap]

CallCalculateAffectOfMigration ==
  /\ op = "none"
  /\ \E c \in DOMAIN topo.copysets, source \in 0..NumNodes, target \in 0..NumNodes :
       /\ op' = "CalculateAffectOfMigration"
       /\ args' = [copySetInfo |-> topo.copysets[c], source |-> source, target |-> target]
       /\ ret' = CalculateAffectOfMigration(topo.copysets[c], source, target, topo)
       /\ UNCHANGED topo

(***************************************************************************)
(* InvovledReplicasSatisfyScatterWidthAfterMigration                       *)
(***************************************************************************)
\* the loop stops at the first entry that does not satisfy the policy
RECURSIVE InvolvedLoop_ShortCircuit(_, _, _, _, _, _, _, _)
InvolvedLoop_ShortCircuit(out, keys, i, target, ignore, minScatterWidth, rangeNum, acc) ==
  IF i > Len(keys)
    THEN acc
    ELSE IF keys[i] = ignore
      THEN InvolvedLoop_ShortCircuit(out, keys, i + 1, target, ignore,
                                     minScatterWidth, rangeNum, acc)
      ELSE IF ~SatisfyScatterWidth(keys[i] = target, out[keys[i]][1], out[keys[i]][2],
                                   minScatterWidth, rangeNum)
        THEN [allSatisfy |-> FALSE, affected |-> acc.affected]
        ELSE InvolvedLoop_ShortCircuit(out, keys, i + 1, target, ignore,
               minScatterWidth, rangeNum,
               [allSatisfy |-> acc.allSatisfy,
                affected |-> acc.affected + (out[keys[i]][2] - out[keys[i]][1])])

\* for (iter = out.begin(); iter != out.end(); iter++): keys ascending
RECURSIVE InvolvedLoop(_, _, _, _, _, _, _, _)
InvolvedLoop(out, keys, i, target, ignore, minScatterWidth, rangeNum, acc) ==
  IF i > Len(keys)
    THEN acc
    ELSE IF keys[i] = ignore
      THEN InvolvedLoop(out, keys, i + 1, target, ignore, minScatterWidth, rangeNum, acc)
      ELSE
        LET beforeMigrationScatterWidth == out[keys[i]][1]
            afterMigrationScatterWidth == out[keys[i]][2]
            ok == SatisfyScatterWidth(keys[i] = target, beforeMigrationScatterWidth,
                                      afterMigrationScatterWidth, minScatterWidth, rangeNum)
        IN InvolvedLoop(out, keys, i + 1, target, ignore, minScatterWidth, rangeNum,
             [allSatisfy |-> IF ~ok THEN FALSE ELSE acc.allSatisfy,
              affected |-> acc.affected
                             + (afterMigrationScatterWidth - beforeMigrationScatterWidth)])

InvovledReplicasSatisfyScatterWidthAfterMigration(copySetInfo, source, target, ignore, t, minScatterWidth, rangeNum) ==
  LET out == CalculateAffectOfMigration(copySetInfo, source, target, t).scatterWidth
  IN InvolvedLoop(out, SortedSeq(DOMAIN out), 1, target, ignore,
                  minScatterWidth, rangeNum, [allSatisfy |-> TRUE, affected |-> 0])

CallInvovledReplicasSatisfyScatterWidthAfterMigration ==
  /\ op = "none"
  /\ \E c \in DOMAIN topo.copysets, source \in 0..NumNodes, target \in 0..NumNodes,
       ignore \in 0..NumNodes,
       minScatterWidth \in 1..MaxMinScatterWidth, rangeNum \in 0..MaxRangeNum :
       /\ op' = "InvovledReplicasSatisfyScatterWidthAfterMigration"
       /\ args' = [copySetInfo |-> topo.copysets[c], source |-> source, target |-> target,
                   ignore |-> ignore, minScatterWidth |-> minScatterWidth,
                   rangeNum |-> rangeNum]
       /\ ret' = InvovledReplicasSatisfyScatterWidthAfterMigration(
                   topo.copysets[c], source, target, ignore, topo, minScatterWidth, rangeNum)
       /\ UNCHANGED topo

InitMigration ==
  /\ \E copysets \in CopysetLists : topo = Topology(copysets, NumZones)
  /\ NoCall

NextMigration ==
  \/ CallCalculateAffectOfMigration
  \/ CallInvovledReplicasSatisfyScatterWidthAfterMigration

SpecMigration == InitMigration /\ [][NextMigration]_vars

(***************************************************************************)
(* The claims about the migration impact and its feasibility, checked      *)
(* under SpecMigration.                                                    *)
(***************************************************************************)
AffectCalled == op = "CalculateAffectOfMigration"

InvolvedCalled == op = "InvovledReplicasSatisfyScatterWidthAfterMigration"

\* the other peers of the copyset of the recorded call: not source, not target
OtherPeers == PeerIds(args.copySetInfo) \ {args.source, args.target}

\* a C -> D migration: source is a peer, target is a chunkserver outside the copyset
MigrationOfPeer ==
  /\ args.source \in PeerIds(args.copySetInfo)
  /\ args.target # UNINTIALIZE_ID
  /\ args.target \notin PeerIds(args.copySetInfo)

\* C6 as claimed: after the simulation source's scatter map holds no other
\* peer of the copyset and target's scatter map holds every other peer, for any
\* scatter maps of the topology.
C6_Original ==
  (AffectCalled /\ MigrationOfPeer)
    => \A p \in OtherPeers :
         /\ p \notin DOMAIN ret.sourceMap
         /\ p \in DOMAIN ret.targetMap

\* C6 (amended): after the simulation source's scatter map still holds another
\* peer exactly when source hosted at least two copysets with it (the count is
\* then one less), and target's scatter map holds every other peer, with one
\* more copyset than before.
C6_SourceKeepsSharedPeers ==
  (AffectCalled /\ MigrationOfPeer)
    => \A p \in OtherPeers :
         LET before == MapGet(GetChunkServerScatterMap(topo, args.source), p)
             gained == MapGet(GetChunkServerScatterMap(topo, args.target), p)
         IN /\ (p \in DOMAIN ret.sourceMap) <=> (before >= 2)
            /\ MapGet(ret.sourceMap, p) = IF before >= 2 THEN before - 1 ELSE 0
            /\ p \in DOMAIN ret.targetMap
            /\ ret.targetMap[p] = gained + 1

\* source keeps one peer it shares two copysets with and loses another
C6_Witness ==
  /\ AffectCalled
  /\ MigrationOfPeer
  /\ \E p, q \in OtherPeers :
       /\ p \in DOMAIN ret.sourceMap
       /\ q \notin DOMAIN ret.sourceMap
       /\ q \in DOMAIN GetChunkServerScatterMap(topo, args.source)
       /\ {p, q} \subseteq DOMAIN ret.targetMap

\* the partners of p once it gained a unit with target and lost one with source
PartnersAfter(p) ==
  LET m == GetChunkServerScatterMap(topo, p)
      withTarget == IF args.target # UNINTIALIZE_ID
                      THEN (DOMAIN m) \cup {args.target} ELSE DOMAIN m
      sourceCount == MapGet(m, args.source)
                       + (IF args.target = args.source THEN 1 ELSE 0)
  IN IF args.source # UNINTIALIZE_ID /\ sourceCount <= 1
       THEN withTarget \ {args.source}
       ELSE withTarget

\* C7: for every peer other than source and target, before is the number of its
\* partners now, after is the number of its partners once it gained a unit with
\* target (when present) and lost one with source (when present, source going
\* away when its count was <= 1), and after - before is -1, 0 or 1.
C7_OtherPeerWidths ==
  AffectCalled
    => \A p \in OtherPeers :
         /\ p \in DOMAIN ret.scatterWidth
         /\ ret.scatterWidth[p][1] = Cardinality(DOMAIN GetChunkServerScatterMap(topo, p))
         /\ ret.scatterWidth[p][2] = Cardinality(PartnersAfter(p))
         /\ ret.scatterWidth[p][2] - ret.scatterWidth[p][1] \in {0 - 1, 0, 1}

\* a peer that already had target as a partner loses source, with which it
\* hosted this copyset only
C7_Witness ==
  /\ AffectCalled
  /\ args.source # UNINTIALIZE_ID
  /\ args.target # UNINTIALIZE_ID
  /\ \E p \in OtherPeers :
       /\ MapGet(GetChunkServerScatterMap(topo, p), args.source) = 1
       /\ args.target \in DOMAIN GetChunkServerScatterMap(topo, p)
       /\ ret.scatterWidth[p][2] - ret.scatterWidth[p][1] = 0 - 1

\* what CalculateAffectOfMigration gives for the recorded call
Impact == CalculateAffectOfMigration(args.copySetInfo, args.source, args.target, topo).scatterWidth

Delta(out, n) == out[n][2] - out[n][1]

Passes(out, n) ==
  SatisfyScatterWidth(n = args.target, out[n][1], out[n][2],
                      args.minScatterWidth, args.rangeNum)

RECURSIVE SumDelta(_, _)
SumDelta(out, S) ==
  IF S = {} THEN 0
  ELSE LET n == CHOOSE x \in S : TRUE IN Delta(out, n) + SumDelta(out, S \ {n})

\* C5: affected is the sum of after - before over every entry of the impact
\* but the ignored one, failing entries and the entries after them included,
\* and the result is false iff a non-ignored entry fails the policy with
\* isTarget = (node = target).
C5_AffectedSumsAllEntries ==
  InvolvedCalled
    => LET out == Impact
           evaluated == (DOMAIN out) \ {args.ignore}
       IN /\ ret.affected = SumDelta(out, evaluated)
          /\ (ret.allSatisfy = FALSE) <=> (\E n \in evaluated : ~Passes(out, n))

\* an entry fails, a later one changes the sum, and the ignored entry would
\* have changed it too
C5_Witness ==
  /\ InvolvedCalled
  /\ ret.allSatisfy = FALSE
  /\ ret.affected # 0
  /\ LET out == Impact
     IN /\ args.ignore \in DOMAIN out
        /\ Delta(out, args.ignore) # 0
        /\ \E n, m \in (DOMAIN out) \ {args.ignore} :
             n < m /\ ~Passes(out, n) /\ Delta(out, m) # 0 /\ Passes(out, m)

RECURSIVE ZoneListOfPeers(_, _, _)
ZoneListOfPeers(peers, i, zoneList) ==
  IF i > Len(peers)
    THEN zoneList
    ELSE ZoneListOfPeers(peers, i + 1,
           IF peers[i].zoneId \in DOMAIN zoneList
             THEN MapPut(zoneList, peers[i].zoneId, zoneList[peers[i].zoneId] + 1)
             ELSE MapPut(zoneList, peers[i].zoneId, 1))

\* sourceZone after the loop over candidate.peers
RECURSIVE SourceZoneOfPeers(_, _, _, _)
SourceZoneOfPeers(peers, i, source, sourceZone) ==
  IF i > Len(peers)
    THEN sourceZone
    ELSE SourceZoneOfPeers(peers, i + 1, source,
           IF source = peers[i].id THEN peers[i].zoneId ELSE sourceZone)

\* the replica of source stays in the zone list
ZoneListAfterMigration_SourceStays(candidate, source, targetZone, garbage) ==
  LET zoneList == ZoneListOfPeers(candidate.peers, 1, EmptyMap)
  IN IF ~(targetZone \in DOMAIN zoneList)
       THEN MapPut(zoneList, targetZone, 1)
       ELSE MapPut(zoneList, targetZone, zoneList[targetZone] + 1)

\* zoneList once -sourceZone, +targetZone are applied
ZoneListAfterMigration(candidate, source, targetZone, garbage) ==
  LET zoneList == ZoneListOfPeers(candidate.peers, 1, EmptyMap)
      sourceZone == SourceZoneOfPeers(candidate.peers, 1, source, garbage)
      zoneList1 == IF sourceZone \in DOMAIN zoneList
                     THEN IF zoneList[sourceZone] = 1
                            THEN MapErase(zoneList, sourceZone)
                            ELSE MapPut(zoneList, sourceZone, zoneList[sourceZone] - 1)
                     ELSE zoneList
  IN IF ~(targetZone \in DOMAIN zoneList1)
       THEN MapPut(zoneList1, targetZone, 1)
       ELSE MapPut(zoneList1, targetZone, zoneList1[targetZone] + 1)

SatisfyZoneAndScatterWidthLimit(t, target, source, candidate, minScatterWidth, rangeNum, garbage) ==
  LET targetInfo == GetChunkServerInfo(t, target)
      minZone == GetStandardZoneNumInLogicalPool(t, candidate.id[1])
  IN IF ~targetInfo.ok
       THEN FALSE
       ELSE IF minZone <= 0
         THEN FALSE
         ELSE IF Size(ZoneListAfterMigration(candidate, source,
                                             targetInfo.info.zoneId, garbage)) < minZone
           THEN FALSE
           ELSE InvovledReplicasSatisfyScatterWidthAfterMigration(
                  candidate, source, target, UNINTIALIZE_ID, t,
                  minScatterWidth, rangeNum).allSatisfy

CallSatisfyZoneAndScatterWidthLimit ==
  /\ op = "none"
  /\ \E c \in DOMAIN topo.copysets, target \in 0..NumNodes,
        minScatterWidth \in 1..MaxMinScatterWidth, rangeNum \in 0..MaxRangeNum :
       \E source \in PeerIds(topo.copysets[c]) \cup {UNINTIALIZE_ID} :
         \E garbage \in IF source \in PeerIds(topo.copysets[c])
                          THEN {0} ELSE 0..NumZones :
           /\ op' = "SatisfyZoneAndScatterWidthLimit"
           /\ args' = [target |-> target, source |-> source,
                       candidate |-> topo.copysets[c],
                       minScatterWidth |-> minScatterWidth, rangeNum |-> rangeNum,
                       garbage |-> garbage]
           /\ ret' = SatisfyZoneAndScatterWidthLimit(
                       topo, target, source, topo.copysets[c],
                       minScatterWidth, rangeNum, garbage)
           /\ UNCHANGED topo

InitZone ==
  /\ \E copysets \in CopysetLists, standardZoneNum \in 0..NumZones :
       topo = Topology(copysets, standardZoneNum)
  /\ NoCall

NextZone == CallSatisfyZoneAndScatterWidthLimit

SpecZone == InitZone /\ [][NextZone]_vars

(***************************************************************************)
(* The claim about SatisfyZoneAndScatterWidthLimit, checked under SpecZone.*)
(***************************************************************************)
ZoneCalled == op = "SatisfyZoneAndScatterWidthLimit"

TargetResolves == GetChunkServerInfo(topo, args.target).ok

\* the zones that hold a replica once source's is gone and target's is there
ZonesAfter ==
  {args.candidate.peers[i].zoneId :
     i \in {j \in DOMAIN args.candidate.peers : args.candidate.peers[j].id # args.source}}
    \cup {GetChunkServerInfo(topo, args.target).info.zoneId}

ScatterFeasible ==
  InvovledReplicasSatisfyScatterWidthAfterMigration(
    args.candidate, args.source, args.target, UNINTIALIZE_ID, topo,
    args.minScatterWidth, args.rangeNum).allSatisfy

\* C4: for a source that is a peer, the result is true exactly when target
\* resolves, the standard zone number is > 0, the zones left after -source
\* +target are at least that many, and the scatter-width check with nothing
\* ignored passes; too few zones reject even when the scatter-width check passes.
C4_ZoneAndScatterWidth ==
  (ZoneCalled /\ args.source \in PeerIds(args.candidate))
    => /\ (ret = TRUE) <=> /\ TargetResolves
                           /\ topo.standardZoneNum > 0
                           /\ Cardinality(ZonesAfter) >= topo.standardZoneNum
                           /\ ScatterFeasible
       /\ (TargetResolves /\ Cardinality(ZonesAfter) < topo.standardZoneNum)
            => ret = FALSE

\* rejected for the zones alone: source's zone is emptied, target's zone was
\* already there, and the scatter-width check passes
C4_Witness ==
  /\ ZoneCalled
  /\ args.source \in PeerIds(args.candidate)
  /\ TargetResolves
  /\ topo.standardZoneNum > 0
  /\ Cardinality(ZonesAfter) < topo.standardZoneNum
  /\ Cardinality(ZonesAfter) < Size(ZoneListOfPeers(args.candidate.peers, 1, EmptyMap))
  /\ ScatterFeasible
  /\ ret = FALSE

(***************************************************************************)
(* CopySetDistributionInOnlineChunkServer                                  *)
(***************************************************************************)
ChunkServerInfo(n, offline) == [info |-> [id |-> n, zoneId |-> ZoneOf(n)], offline |-> offline]

IsOffline(cs) == cs.offline

\* the loop over item.peers
RECURSIVE DistributeToPeers(_, _, _)
DistributeToPeers(item, j, out) ==
  IF j > Len(item.peers)
    THEN out
    ELSE DistributeToPeers(item, j + 1,
           IF ~(item.peers[j].id \in DOMAIN out)
             THEN MapPut(out, item.peers[j].id, <<item>>)
             ELSE MapPut(out, item.peers[j].id, Append(out[item.peers[j].id], item)))

\* the loop over copysetList
RECURSIVE DistributeCopysets(_, _, _)
DistributeCopysets(copysetList, i, out) ==
  IF i > Len(copysetList)
    THEN out
    ELSE DistributeCopysets(copysetList, i + 1, DistributeToPeers(copysetList[i], 1, out))

\* the entry of an offline chunkserver is left in the map
RECURSIVE SettleChunkServers_KeepOffline(_, _, _)
SettleChunkServers_KeepOffline(chunkserverList, i, out) ==
  IF i > Len(chunkserverList)
    THEN out
    ELSE SettleChunkServers_KeepOffline(chunkserverList, i + 1,
           IF ~(chunkserverList[i].info.id \in DOMAIN out)
             THEN MapPut(out, chunkserverList[i].info.id, << >>)
             ELSE out)

\* the loop over chunkserverList
RECURSIVE SettleChunkServers(_, _, _)
SettleChunkServers(chunkserverList, i, out) ==
  IF i > Len(chunkserverList)
    THEN out
    ELSE SettleChunkServers(chunkserverList, i + 1,
           IF IsOffline(chunkserverList[i])
             THEN MapErase(out, chunkserverList[i].info.id)
             ELSE IF ~(chunkserverList[i].info.id \in DOMAIN out)
               THEN MapPut(out, chunkserverList[i].info.id, << >>)
               ELSE out)

CopySetDistributionInOnlineChunkServer(copysetList, chunkserverList, out) ==
  SettleChunkServers(chunkserverList, 1, DistributeCopysets(copysetList, 1, out))

\* the chunkservers of ids, ascending, those of offlineIds offline
ChunkServerList(ids, offlineIds) ==
  [i \in 1..Cardinality(ids) |->
     ChunkServerInfo(SortedSeq(ids)[i], SortedSeq(ids)[i] \in offlineIds)]

CallCopySetDistributionInOnlineChunkServer ==
  /\ op = "none"
  /\ \E ids \in SUBSET Nodes :
       \E offlineIds \in SUBSET ids :
         /\ op' = "CopySetDistributionInOnlineChunkServer"
         /\ args' = [copysetList |-> GetCopySetInfos(topo),
                     chunkserverList |-> ChunkServerList(ids, offlineIds)]
         /\ ret' = CopySetDistributionInOnlineChunkServer(
                     GetCopySetInfos(topo), ChunkServerList(ids, offlineIds), EmptyMap)
         /\ UNCHANGED topo

InitDistribution ==
  /\ \E copysets \in CopysetLists : topo = Topology(copysets, NumZones)
  /\ NoCall

NextDistribution == CallCopySetDistributionInOnlineChunkServer

SpecDistribution == InitDistribution /\ [][NextDistribution]_vars

(***************************************************************************)
(* The claim about CopySetDistributionInOnlineChunkServer, checked under   *)
(* SpecDistribution.                                                       *)
(***************************************************************************)
DistributionCalled == op = "CopySetDistributionInOnlineChunkServer"

\* the places in copysetList of the copysets that list n as a peer
HostedBy(n) ==
  {i \in DOMAIN args.copysetList : n \in PeerIds(args.copysetList[i])}

\* C8: called with an empty map, an offline chunkserver of the list is never a
\* key of the result, hosting copysets or not, and an online one always is,
\* mapped to exactly the copysets that list it as a peer (none: an empty list).
C8_OnlineDistribution ==
  DistributionCalled
    => \A i \in DOMAIN args.chunkserverList :
         LET cs == args.chunkserverList[i]
         IN IF IsOffline(cs)
              THEN cs.info.id \notin DOMAIN ret
              ELSE /\ cs.info.id \in DOMAIN ret
                   /\ Len(ret[cs.info.id]) = Cardinality(HostedBy(cs.info.id))
                   /\ {ret[cs.info.id][k] : k \in DOMAIN ret[cs.info.id]}
                        = {args.copysetList[k] : k \in HostedBy(cs.info.id)}

\* an offline chunkserver that hosts copysets, an online one that hosts none
\* and an online one that hosts two
C8_Witness ==
  /\ DistributionCalled
  /\ \E i, j, k \in DOMAIN args.chunkserverList :
       /\ IsOffline(args.chunkserverList[i])
       /\ HostedBy(args.chunkserverList[i].info.id) # {}
       /\ args.chunkserverList[i].info.id \notin DOMAIN ret
       /\ ~IsOffline(args.chunkserverList[j])
       /\ HostedBy(args.chunkserverList[j].info.id) = {}
       /\ ret[args.chunkserverList[j].info.id] = << >>
       /\ ~IsOffline(args.chunkserverList[k])
       /\ Len(ret[args.chunkserverList[k].info.id]) = 2

(***************************************************************************)
(* The three sorts.  std::shuffle leaves the elements in an order the      *)
(* random generator decides: perm, any permutation of the positions.       *)
(* std::sort on fewer than 17 elements is libstdc++'s insertion sort.      *)
(***************************************************************************)
Perms(n) == {f \in [1..n -> 1..n] : \A i, j \in 1..n : f[i] = f[j] => i = j}

Shuffle(s, perm) == [i \in DOMAIN s |-> s[perm[i]]]

\* SortDistribute sorts ascending by list size
DistributeComp_Asc(c1, c2) == Len(c1[2]) < Len(c2[2])

\* c1.second.size() > c2.second.size()
DistributeComp(c1, c2) == Len(c1[2]) > Len(c2[2])

\* c1.second < c2.second, on (ChunkServerInfo, copyset number)
CopySetNumComp(c1, c2) == c1[2] < c2[2]

\* c1.second < c2.second, on (ChunkServerIdType, affected)
AffectedComp(c1, c2) == c1[2] < c2[2]

Comp(kind, c1, c2) ==
  CASE kind = "SortDistribute" -> DistributeComp(c1, c2)
    [] kind = "SortChunkServerByCopySetNumAsc" -> CopySetNumComp(c1, c2)
    [] kind = "SortScatterWitAffected" -> AffectedComp(c1, c2)

\* __unguarded_linear_insert: val goes down from pos past every element it
\* compares before
RECURSIVE LinearInsert(_, _, _, _)
LinearInsert(kind, s, pos, val) ==
  IF Comp(kind, val, s[pos - 1])
    THEN LinearInsert(kind, [s EXCEPT ![pos] = s[pos - 1]], pos - 1, val)
    ELSE [s EXCEPT ![pos] = val]

\* __insertion_sort, from element i on
RECURSIVE InsertionSort(_, _, _)
InsertionSort(kind, s, i) ==
  IF i > Len(s)
    THEN s
    ELSE IF Comp(kind, s[i], s[1])
      THEN InsertionSort(kind,
             <<s[i]>> \o SubSeq(s, 1, i - 1) \o SubSeq(s, i + 1, Len(s)), i + 1)
      ELSE InsertionSort(kind, LinearInsert(kind, s, i, s[i]), i + 1)

StdSort(kind, s) == IF Len(s) <= 1 THEN s ELSE InsertionSort(kind, s, 2)

\* for (auto item : distribute): the copy of each list is shuffled and appended
RECURSIVE ShuffleLists(_, _, _, _, _)
ShuffleLists(distribute, keys, i, listPerms, desc) ==
  IF i > Len(keys)
    THEN desc
    ELSE ShuffleLists(distribute, keys, i + 1, listPerms,
           Append(desc, <<keys[i], Shuffle(distribute[keys[i]], listPerms[keys[i]])>>))

SortDistribute(distribute, desc, listPerms, descPerm) ==
  StdSort("SortDistribute",
          Shuffle(ShuffleLists(distribute, SortedSeq(DOMAIN distribute), 1, listPerms, desc),
                  descPerm))

\* the lists a distribution may hold: the copyset ids (1, 1) .. (1, n)
CopysetIdLists == {[j \in 1..n |-> <<1, j>>] : n \in 0..MaxListLen}

\* what the shuffles of the lists of nodes 1..k may give: one permutation each
RECURSIVE ListShuffles(_, _)
ListShuffles(distribute, k) ==
  IF k = 0
    THEN {EmptyMap}
    ELSE {MapPut(f, k, perm) :
            f \in ListShuffles(distribute, k - 1), perm \in Perms(Len(distribute[k]))}

CallSortDistribute ==
  /\ op = "none"
  /\ topo.copysets = << >>
  /\ \E distribute \in [1..NumRankNodes -> CopysetIdLists] :
       \E listPerms \in ListShuffles(distribute, NumRankNodes),
          descPerm \in Perms(NumRankNodes) :
         /\ op' = "SortDistribute"
         /\ args' = [distribute |-> distribute]
         /\ ret' = SortDistribute(distribute, << >>, listPerms, descPerm)
         /\ UNCHANGED topo

\* copysetNumInCs after the loops over copysetList and copyset.peers
RECURSIVE CountPeers(_, _, _)
CountPeers(copyset, j, copysetNumInCs) ==
  IF j > Len(copyset.peers)
    THEN copysetNumInCs
    ELSE CountPeers(copyset, j + 1,
           IF ~(copyset.peers[j].id \in DOMAIN copysetNumInCs)
             THEN MapPut(copysetNumInCs, copyset.peers[j].id, 1)
             ELSE MapPut(copysetNumInCs, copyset.peers[j].id,
                         copysetNumInCs[copyset.peers[j].id] + 1))

RECURSIVE CountCopysets(_, _, _)
CountCopysets(copysetList, i, copysetNumInCs) ==
  IF i > Len(copysetList)
    THEN copysetNumInCs
    ELSE CountCopysets(copysetList, i + 1, CountPeers(copysetList[i], 1, copysetNumInCs))

SortChunkServerByCopySetNumAsc(chunkserverList, t, perm) ==
  LET copysetNumInCs == CountCopysets(GetCopySetInfos(t), 1, EmptyMap)
      transfer == [i \in DOMAIN chunkserverList |->
                     <<chunkserverList[i],
                       IF chunkserverList[i].info.id \in DOMAIN copysetNumInCs
                         THEN copysetNumInCs[chunkserverList[i].info.id] ELSE 0>>]
      sorted == StdSort("SortChunkServerByCopySetNumAsc", Shuffle(transfer, perm))
  IN [i \in DOMAIN sorted |-> sorted[i][1]]

CallSortChunkServerByCopySetNumAsc ==
  /\ op = "none"
  /\ \E ids \in SUBSET Nodes :
       \E perm \in Perms(Cardinality(ids)) :
         /\ op' = "SortChunkServerByCopySetNumAsc"
         /\ args' = [chunkserverList |-> ChunkServerList(ids, {})]
         /\ ret' = SortChunkServerByCopySetNumAsc(ChunkServerList(ids, {}), topo, perm)
         /\ UNCHANGED topo

SortScatterWitAffected(candidates, perm) ==
  StdSort("SortScatterWitAffected", Shuffle(candidates, perm))

CallSortScatterWitAffected ==
  /\ op = "none"
  /\ topo.copysets = << >>
  /\ \E n \in 0..NumRankNodes :
       \E affected \in [1..n -> (0 - MaxDelta)..MaxDelta], perm \in Perms(n) :
         /\ op' = "SortScatterWitAffected"
         /\ args' = [candidates |-> [i \in 1..n |-> <<i, affected[i]>>]]
         /\ ret' = SortScatterWitAffected([i \in 1..n |-> <<i, affected[i]>>], perm)
         /\ UNCHANGED topo

\* SortDistribute and SortScatterWitAffected do not read the topology: their
\* calls are explored from the empty snapshot only.
InitRank ==
  /\ \E copysets \in CopysetLists : topo = Topology(copysets, NumZones)
  /\ NoCall

NextRank ==
  \/ CallSortDistribute
  \/ CallSortChunkServerByCopySetNumAsc
  \/ CallSortScatterWitAffected

SpecRank == InitRank /\ [][NextRank]_vars

(***************************************************************************)
(* The claim about the three sorts, checked under SpecRank.                *)
(***************************************************************************)
\* s and t hold the same elements, each as many times
IsPermutation(s, t) ==
  /\ Len(s) = Len(t)
  /\ \A x \in {s[i] : i \in DOMAIN s} \cup {t[i] : i \in DOMAIN t} :
       Cardinality({i \in DOMAIN s : s[i] = x}) = Cardinality({i \in DOMAIN t : t[i] = x})

\* the number of copysets of the topology that list n as a peer
CopysetNum(n) ==
  Cardinality({i \in DOMAIN topo.copysets : n \in PeerIds(topo.copysets[i])})

DistributeOrdered ==
  /\ Len(ret) = NumRankNodes
  /\ \A k \in 1..NumRankNodes :
       \E i \in DOMAIN ret :
         ret[i][1] = k /\ IsPermutation(ret[i][2], args.distribute[k])
  /\ \A i \in 1..(Len(ret) - 1) : Len(ret[i][2]) >= Len(ret[i + 1][2])

ChunkServersOrdered ==
  /\ IsPermutation(ret, args.chunkserverList)
  /\ \A i \in 1..(Len(ret) - 1) : CopysetNum(ret[i].info.id) <= CopysetNum(ret[i + 1].info.id)

AffectedOrdered ==
  /\ IsPermutation(ret, args.candidates)
  /\ \A i \in 1..(Len(ret) - 1) : ret[i][2] <= ret[i + 1][2]

\* C9: whatever the shuffles give, each sort returns a permutation of its
\* input (SortDistribute: every chunkserver once, with a permutation of its
\* list) whose adjacent elements are in the order of the key: list size not
\* increasing, copyset number not decreasing, affected not decreasing.
C9_SortsOrderPermutation ==
  /\ op = "SortDistribute" => DistributeOrdered
  /\ op = "SortChunkServerByCopySetNumAsc" => ChunkServersOrdered
  /\ op = "SortScatterWitAffected" => AffectedOrdered

\* a SortDistribute result of three chunkservers with a tie, that is neither
\* in the order of the ids nor in the reverse order, and holds a shuffled list
C9_Witness ==
  /\ op = "SortDistribute"
  /\ Len(ret) >= 3
  /\ Len(ret[1][2]) > Len(ret[2][2])
  /\ Len(ret[2][2]) = Len(ret[3][2])
  /\ ret[2][1] > ret[3][1]
  /\ ret[1][1] > ret[3][1]
  /\ ret[1][2] # args.distribute[ret[1][1]]

\* a SortChunkServerByCopySetNumAsc result with distinct copyset numbers
C9_WitnessChunkServers ==
  /\ op = "SortChunkServerByCopySetNumAsc"
  /\ Len(ret) >= 3
  /\ CopysetNum(ret[1].info.id) < CopysetNum(ret[Len(ret)].info.id)
  /\ ret # args.chunkserverList

\* a SortScatterWitAffected result that is not the input order
C9_WitnessAffected ==
  /\ op = "SortScatterWitAffected"
  /\ Len(ret) >= 3
  /\ ret[1][2] < ret[2][2]
  /\ ret[2][2] < ret[3][2]
  /\ ret # args.candidates

====
